---- MODULE Spec2Model ----
(***************************************************************************)
(* Model of sbscorer/flipside/FlipsideApi.py: the adaptive batch           *)
(* extraction of transactions (extract_transactions_net), the paginator    *)
(* (execute_query), the page fetcher (execute_query_page), the recursive   *)
(* range splitter (extract_transactions_rec / _between_rec) and the        *)
(* address partitioner (export_address).                                   *)
(*                                                                         *)
(* A DataFrame is a sequence of rows, a row is [hash, from_address,        *)
(* to_address]; the output directory extract_dir/network is a function     *)
(* from addresses to files.  One behaviour is one call of                  *)
(* extract_transactions_net.                                               *)
(***************************************************************************)
EXTENDS Integers, Sequences, FiniteSets, TLC

(* ------------------------------ bounds -------------------------------- *)
\* longest address list handed to extract_transactions_net
MaxLen == 3
\* largest batch cap (constructor argument max_address)
MaxBatchCap == 3
\* largest page size (constructor argument page_size)
MaxPageSize == 2
\* page fetches that may fail in one run
MaxFailures == 1
\* nested activations of extract_transactions_rec the interpreter allows
\* before it raises RecursionError (CPython's recursion limit, scaled down)
MaxDepth == 2

(* ------------------------- program constants -------------------------- *)
\* self.MAX_ROWS, the hard row cap of the service (1000000 in the source,
\* scaled down with the ledger below)
MAX_ROWS == 3

list_network == {"ethereum", "polygon", "arbitrum", "avalanche", "gnosis", "optimism"}

(* --------------------------- the environment -------------------------- *)
\* addresses a caller may supply; "0xAAA" is "0xaaa" in another case
Addresses == {"0xaaa", "0xbbb", "0xccc", "0xAAA"}

\* SQL LOWER('...') as the service evaluates it
Lower(a) == IF a = "0xAAA" THEN "0xaaa" ELSE a

\* the rows of <network>.core.fact_transactions, in the service's order;
\* addresses are stored in lower case, "0xddd" is never in an address list
Ledger ==
    << [hash |-> 1, from_address |-> "0xaaa", to_address |-> "0xbbb"],
       [hash |-> 2, from_address |-> "0xbbb", to_address |-> "0xddd"],
       [hash |-> 3, from_address |-> "0xddd", to_address |-> "0xaaa"],
       [hash |-> 4, from_address |-> "0xaaa", to_address |-> "0xaaa"] >>

\* what the service may hold: nothing, a ledger no query of which exceeds the
\* row cap, and one whose query for 0xaaa and 0xbbb exceeds it
Chains == { SubSeq(Ledger, 1, n) : n \in {0, Len(Ledger) - 1, Len(Ledger)} }

\* a row left in 0xccc_tx.csv by an earlier run
StaleRow == [hash |-> 9, from_address |-> "0xccc", to_address |-> "0xddd"]

NoFile == [exists |-> FALSE, rows |-> << >>]

\* extract_dir/network before the run: no file but the stale one
InitialFiles ==
    [a \in Addresses |-> IF a = "0xccc"
                           THEN [exists |-> TRUE, rows |-> << StaleRow >>]
                           ELSE NoFile]

AddressLists == UNION { [1..n -> Addresses] : n \in 0..MaxLen }

InputNetworks == {"ethereum", "fantom"}

\* what self.sdk.query can do for one page
ClientOutcomes == {"ok", "network error", "service error", "malformed response"}

VARIABLES
    array_address,   \* argument of extract_transactions_net
    network,         \* argument of extract_transactions_net
    MAX_ADDRESS,     \* self.MAX_ADDRESS
    PAGE_SIZE,       \* self.PAGE_SIZE
    chain,           \* the rows the service holds for the network
    files,           \* extract_dir/network: address -> <address>_tx.csv
    pc,              \* where the run is
    i,               \* loop variable of extract_transactions_net
    start_index,     \* arguments of the call in progress
    end_index,
    caller,          \* who called get_transactions: "net" or "between"
    stack,           \* activations of extract_transactions_rec
    sql,             \* query of the execute_query in progress
    page_number,     \* locals of execute_query
    list_df,
    df_size,
    df,              \* result of the last execute_query
    warned,          \* the last execute_query printed the WARNING
    exception,       \* exception that left extract_transactions_net
    failures,        \* page fetches that failed so far
    served,          \* history: pages handed to the current execute_query
    log,             \* history: queries, splits, exports and file writes
    info_type,       \* arguments of get_cross_chain_info_sql_query
    limit,
    info_pc,         \* "idle", "call" or "done"
    info_sql,        \* << the query text it returned >>, << >> if none
    info_exception   \* exception that left get_cross_chain_info_sql_query

vars == << array_address, network, MAX_ADDRESS, PAGE_SIZE, chain, files, pc, i,
           start_index, end_index, caller, stack, sql, page_number, list_df,
           df_size, df, warned, exception, failures, served, log,
           info_type, limit, info_pc, info_sql, info_exception >>

inputs == << array_address, network, MAX_ADDRESS, PAGE_SIZE, chain >>

query_locals == << sql, page_number, list_df, df_size, served >>

\* the state of a call of get_cross_chain_info_sql_query
cross_chain == << info_type, limit, info_pc, info_sql, info_exception >>


(* --------------------------- Python helpers --------------------------- *)
Min(a, b) == IF a < b THEN a ELSE b

\* a slice that takes the element at end too
Slice_inclusive(array, start, end) ==
    LET hi == IF end + 1 < Len(array) THEN end + 1 ELSE Len(array)
    IN  IF start >= hi THEN << >>
        ELSE [k \in 1..(hi - start) |-> array[start + k]]

\* array[start:end] for 0 <= start, 0 <= end (a slice never fails, it clamps)
Slice(array, start, end) ==
    LET hi == Min(end, Len(array))
    IN  IF start >= hi THEN << >>
        ELSE [k \in 1..(hi - start) |-> array[start + k]]

\* pd.concat(list_df): the rows of the frames, in list order
RECURSIVE pd_concat(_)
pd_concat(frames) ==
    IF frames = << >> THEN << >> ELSE Head(frames) \o pd_concat(Tail(frames))

\* df.shape is a tuple (rows, columns); self.MAX_ROWS is an int
shape(frame) == [type |-> "tuple", val |-> << Len(frame), IF frame = << >> THEN 0 ELSE 3 >>]
PyInt(n) == [type |-> "int", val |-> n]
\* Python ==: values of different types are unequal
PyEq(x, y) == x.type = y.type /\ x.val = y.val

(* -------------------------- the query service ------------------------- *)
\* lower_str: one LOWER('<add>') term per address, "" for an empty array
get_string_address(array) == [k \in 1..Len(array) |-> [fn |-> "LOWER", arg |-> array[k]]]

\* get_<network>_transactions_sql_query with limit=0
get_transactions_sql_query(array, net) ==
    [table |-> net, in_list |-> get_string_address(array)]

\* WHERE FROM_ADDRESS IN (...) OR TO_ADDRESS IN (...)
Matches(q) ==
    SelectSeq(chain, LAMBDA row :
        \E k \in 1..Len(q.in_list) :
            Lower(q.in_list[k].arg) \in {row.from_address, row.to_address})

\* the service returns at most MAX_ROWS rows for one query
ResultSet(q) == SubSeq(Matches(q), 1, Min(Len(Matches(q)), MAX_ROWS))

\* self.sdk.query(sql, page_size, page_number, ...): the records of one page,
\* or an exception; "IN ()" is rejected by the service as a syntax error
sdk_query(q, page_size, page, outcome) ==
    IF outcome = "ok" /\ q.in_list # << >>
    THEN [raised |-> FALSE,
          records |-> Slice(ResultSet(q), (page - 1) * page_size, page * page_size)]
    ELSE [raised |-> TRUE, records |-> << >>]

(* --------------------------- the page fetcher ------------------------- *)
\* a page fetcher without the try/except of lines 60 and 69
execute_query_page_no_except(q, page_size, page, outcome) ==
    LET query_result_set == sdk_query(q, page_size, page, outcome)
    IN  [raised |-> query_result_set.raised, df |-> query_result_set.records]

execute_query_page(q, page_size, page, outcome) ==
    LET query_result_set == sdk_query(q, page_size, page, outcome)
    IN  IF query_result_set.raised
        THEN [raised |-> FALSE, df |-> << >>]
        ELSE [raised |-> FALSE, df |-> query_result_set.records]

(* ------------------------ the address partitioner --------------------- *)
\* a filter that forgets the receiver
address_transactions_from_only(frame, address) ==
    SelectSeq(frame, LAMBDA row : row.from_address = address)

\* df[np.logical_or(df.from_address == address, df.to_address == address)]
address_transactions(frame, address) ==
    SelectSeq(frame, LAMBDA row :
        row.from_address = address \/ row.to_address = address)

\* a guard that also saves an empty subset
has_transactions_always(df_address_transactions) == Len(df_address_transactions) >= 0

\* df_address_transactions.shape[0] > 0
has_transactions(df_address_transactions) == Len(df_address_transactions) > 0

\* save_csv(df, path_to_export, csv_file): a full overwrite of the file
save_csv(frame, address, fs) ==
    [fs EXCEPT ![address] = [exists |-> TRUE, rows |-> frame]]

\* the resulting directory and the addresses whose file was written, in order
RECURSIVE export_address(_, _, _)
export_address(frame, np_address, fs) ==
    IF np_address = << >> THEN [files |-> fs, written |-> << >>]
    ELSE LET address == Head(np_address)
             df_address_transactions == address_transactions(frame, address)
             save == has_transactions(df_address_transactions)
             fs1 == IF save THEN save_csv(df_address_transactions, address, fs) ELSE fs
             rest == export_address(frame, Tail(np_address), fs1)
         IN  [files |-> rest.files,
              written |-> (IF save THEN << address >> ELSE << >>) \o rest.written]

(* ------------------------------ history ------------------------------- *)
Event(op, s, e, n, a, lvl) ==
    [op |-> op, start |-> s, end |-> e, rows |-> n, address |-> a, level |-> lvl]

WriteEvents(written, s, e, lvl) ==
    [k \in 1..Len(written) |-> Event("write", s, e, 0, written[k], lvl)]


(* ------------------------------- Init --------------------------------- *)
Init ==
    /\ array_address \in AddressLists
    /\ network \in InputNetworks
    /\ MAX_ADDRESS \in 1..MaxBatchCap
    /\ PAGE_SIZE \in 1..MaxPageSize
    /\ chain \in Chains
    /\ files = InitialFiles
    /\ pc = "net"
    /\ i = 0
    /\ start_index = 0
    /\ end_index = 0
    /\ caller = "net"
    /\ stack = << >>
    /\ sql = get_transactions_sql_query(<< >>, network)
    /\ page_number = 1
    /\ list_df = << >>
    /\ df_size = 0
    /\ df = << >>
    /\ warned = FALSE
    /\ exception = "none"
    /\ failures = 0
    /\ served = << >>
    /\ log = << >>
    /\ info_type = "label"
    /\ limit = 0
    /\ info_pc = "idle"
    /\ info_sql = << >>
    /\ info_exception = "none"

(* ----------------------- extract_transactions_net --------------------- *)
\* q of lines 84-86
NumBatches ==
    LET len_address == Len(array_address)
        q == len_address \div MAX_ADDRESS
        r == len_address % MAX_ADDRESS
    IN  IF r # 0 THEN q + 1 ELSE q

\* a dispatch whose else branch builds a query too
supported_any(net) == TRUE

\* the if/elif chain of lines 102-113: the networks that have a query builder
supported(net) == net \in list_network

\* get_transactions(array_address[start:end], network) up to the first page
\* fetch: the network dispatch, then the locals of execute_query
get_transactions(start, end, lg) ==
    IF ~ supported(network)
    THEN /\ pc' = "raised"
         /\ exception' = "Network not supported"
         /\ log' = lg
         /\ UNCHANGED query_locals
    ELSE /\ sql' = get_transactions_sql_query(Slice(array_address, start, end), network)
         /\ df_size' = PAGE_SIZE
         /\ page_number' = 1
         /\ list_df' = << >>
         /\ served' = << >>
         /\ pc' = "paging"
         /\ log' = Append(lg, Event("query", start, end, 0, "", caller'))
         /\ UNCHANGED exception

\* one iteration of the for loop, lines 87-93
extract_transactions_net_batch ==
    /\ pc = "net"
    /\ i < NumBatches
    /\ start_index' = i * MAX_ADDRESS
    /\ end_index' = (i + 1) * MAX_ADDRESS
    /\ caller' = "net"
    /\ get_transactions(start_index', end_index', log)
    /\ UNCHANGED << inputs, cross_chain, files, i, stack, df, warned, failures >>

\* the for loop is exhausted: the function returns
extract_transactions_net_return ==
    /\ pc = "net"
    /\ i >= NumBatches
    /\ pc' = "returned"
    /\ UNCHANGED << inputs, cross_chain, files, i, start_index, end_index, caller, stack,
                    query_locals, df, warned, exception, failures, log >>

(* ---------------------------- execute_query --------------------------- *)
\* a loop that goes on while pages are not empty
while_condition_nonempty(size, page_size) == size > 0

\* while df_size == self.PAGE_SIZE
while_condition(size, page_size) == size = page_size

\* one turn of the while loop, lines 48-52
execute_query_fetch ==
    /\ pc = "paging"
    /\ while_condition(df_size, PAGE_SIZE)
    /\ \E outcome \in ClientOutcomes :
        /\ outcome # "ok" => failures < MaxFailures
        /\ failures' = IF outcome = "ok" THEN failures ELSE failures + 1
        /\ LET page == execute_query_page(sql, PAGE_SIZE, page_number, outcome)
           IN  IF page.raised
               THEN /\ pc' = "raised"
                    /\ exception' = "client error"
                    /\ UNCHANGED << page_number, list_df, df_size, served >>
               ELSE /\ page_number' = page_number + 1
                    /\ list_df' = Append(list_df, page.df)
                    /\ df_size' = Len(page.df)
                    /\ served' = Append(served, [page_number |-> page_number,
                                                 outcome |-> outcome,
                                                 rows |-> page.df])
                    /\ UNCHANGED << pc, exception >>
    /\ UNCHANGED << inputs, cross_chain, files, i, start_index, end_index, caller, stack,
                    sql, df, warned, log >>

\* a cap test written as the one of line 94, on the shape tuple
cap_warning_on_shape(frame) == PyEq(shape(frame), PyInt(MAX_ROWS))

\* df.shape[0] == self.MAX_ROWS, line 55: the WARNING is printed
cap_warning(frame) == PyEq(PyInt(Len(frame)), PyInt(MAX_ROWS))

\* lines 54-57: the loop has ended
execute_query_return ==
    /\ pc = "paging"
    /\ ~ while_condition(df_size, PAGE_SIZE)
    /\ df' = pd_concat(list_df)
    /\ warned' = cap_warning(df')
    /\ pc' = "queried"
    /\ UNCHANGED << inputs, cross_chain, files, i, start_index, end_index, caller, stack,
                    query_locals, exception, failures, log >>


(* ------------------- routing of a batch, lines 94-99 ------------------ *)
\* df.shape == self.MAX_ROWS
is_capped(frame) == PyEq(shape(frame), PyInt(MAX_ROWS))

\* df.shape[0] == 0 or df.shape == self.MAX_ROWS
net_retry(frame) == Len(frame) = 0 \/ is_capped(frame)

\* a sub-range test that never recurses
between_retry_never(frame) == FALSE

\* df.shape[0] == 0, line 164
between_retry(frame) == Len(frame) = 0

\* the export of lines 98-99 and 170-171, with its history
Export(lvl) ==
    LET out == export_address(df, Slice(array_address, start_index, end_index), files)
    IN  /\ files' = out.files
        /\ log' = Append(log, Event("export", start_index, end_index, Len(df), "", lvl))
                      \o WriteEvents(out.written, start_index, end_index, lvl)

extract_transactions_net_route ==
    /\ pc = "queried"
    /\ caller = "net"
    /\ IF net_retry(df)
       THEN /\ pc' = "rec"
            /\ log' = Append(log, Event("split", start_index, end_index, Len(df), "", "net"))
            /\ UNCHANGED << files, i >>
       ELSE /\ Export("net")
            /\ i' = i + 1
            /\ pc' = "net"
    /\ UNCHANGED << inputs, cross_chain, start_index, end_index, caller, stack, query_locals,
                    df, warned, exception, failures >>

(* --------------- extract_transactions_between_rec, 164-171 ------------ *)
extract_transactions_between_rec_route ==
    /\ pc = "queried"
    /\ caller = "between"
    /\ IF between_retry(df)
       THEN /\ pc' = "rec"
            /\ log' = Append(log, Event("split", start_index, end_index, Len(df), "", "between"))
            /\ UNCHANGED files
       ELSE /\ Export("between")
            /\ pc' = "ret"
    /\ UNCHANGED << inputs, cross_chain, i, start_index, end_index, caller, stack, query_locals,
                    df, warned, exception, failures >>

(* -------------------- extract_transactions_rec, 152-158 --------------- *)
\* a midpoint rounded up
end_first_slice_ceil(start, end) == (start + end + 1) \div 2

\* end_first_slice = (start_index + end_index) // 2
end_first_slice(start, end) == (start + end) \div 2

\* a first call that takes the right half
first_slice_right(start, mid, end) == [start |-> mid, end |-> end]

\* the range of the first call, lines 155-156
first_slice(start, mid, end) == [start |-> start, end |-> mid]

\* the range of the second call, lines 157-158
second_slice(start, mid, end) == [start |-> mid, end |-> end]

\* entry of extract_transactions_rec and its first call of between_rec; a
\* call that would exceed the interpreter's recursion limit raises instead
extract_transactions_rec ==
    /\ pc = "rec"
    /\ IF Len(stack) >= MaxDepth
       THEN /\ pc' = "raised"
            /\ exception' = "RecursionError"
            /\ UNCHANGED << start_index, end_index, caller, stack, query_locals, log >>
       ELSE LET mid == end_first_slice(start_index, end_index)
            IN  /\ stack' = Append(stack, [start |-> start_index, end |-> end_index,
                                           mid |-> mid, half |-> 1])
                /\ start_index' = first_slice(start_index, mid, end_index).start
                /\ end_index' = first_slice(start_index, mid, end_index).end
                /\ caller' = "between"
                /\ get_transactions(start_index', end_index', log)
    /\ UNCHANGED << inputs, cross_chain, files, i, df, warned, failures >>

\* the first between_rec has returned: the second call, lines 157-158
extract_transactions_rec_second ==
    /\ pc = "ret"
    /\ stack # << >>
    /\ stack[Len(stack)].half = 1
    /\ LET top == stack[Len(stack)]
       IN  /\ stack' = [stack EXCEPT ![Len(stack)].half = 2]
           /\ start_index' = second_slice(top.start, top.mid, top.end).start
           /\ end_index' = second_slice(top.start, top.mid, top.end).end
           /\ caller' = "between"
           /\ get_transactions(start_index', end_index', log)
    /\ UNCHANGED << inputs, cross_chain, files, i, df, warned, failures >>

\* the second between_rec has returned: extract_transactions_rec returns, to
\* the between_rec that called it or to the for loop of line 87
extract_transactions_rec_return ==
    /\ pc = "ret"
    /\ stack # << >>
    /\ stack[Len(stack)].half = 2
    /\ stack' = SubSeq(stack, 1, Len(stack) - 1)
    /\ IF Len(stack) = 1
       THEN /\ i' = i + 1
            /\ pc' = "net"
       ELSE /\ pc' = "ret"
            /\ UNCHANGED i
    /\ UNCHANGED << inputs, cross_chain, files, start_index, end_index, caller, query_locals,
                    df, warned, exception, failures, log >>

(* ------------------------------- Spec --------------------------------- *)
Next ==
    \/ extract_transactions_net_batch
    \/ extract_transactions_net_return
    \/ execute_query_fetch
    \/ execute_query_return
    \/ extract_transactions_net_route
    \/ extract_transactions_between_rec_route
    \/ extract_transactions_rec
    \/ extract_transactions_rec_second
    \/ extract_transactions_rec_return

Spec == Init /\ [][Next]_vars

\* the run goes on while it can: a synchronous, single-threaded program
FairSpec == Spec /\ WF_vars(Next)

(* -------------- get_cross_chain_info_sql_query, 312-331 --------------- *)
\* values a caller may pass as info_type and limit
InfoTypes == {"label", "tag", "labels", ""}
InfoLimits == {0, 1, 2}

\* the if/elif/else of lines 314-319: the else branch builds an Exception
\* object and drops it, so table_name stays unbound
table_name(type) ==
    IF type = "label" THEN "crosschain.address_labels"
    ELSE IF type = "tag" THEN "crosschain.address_tags"
    ELSE "unbound"

\* lines 320-323
string_limit(lim) == IF lim # 0 THEN << "LIMIT", lim >> ELSE << >>

\* the function, as [raised, sql]: the f-string of lines 325-330 reads
\* table_name, and reading an unbound local raises UnboundLocalError
cross_chain_info_sql_query(array, type, lim) ==
    LET str_list_add == get_string_address(array)
    IN  IF table_name(type) = "unbound"
        THEN [raised |-> "UnboundLocalError", sql |-> << >>]
        ELSE [raised |-> "none",
              sql |-> << [table |-> table_name(type),
                          in_list |-> str_list_add,
                          limit |-> string_limit(lim)] >>]

InfoInit ==
    /\ array_address \in AddressLists
    /\ info_type \in InfoTypes
    /\ limit \in InfoLimits
    /\ info_pc = "call"
    /\ info_sql = << >>
    /\ info_exception = "none"
    /\ network = "ethereum"
    /\ MAX_ADDRESS = 1
    /\ PAGE_SIZE = 1
    /\ chain = << >>
    /\ files = InitialFiles
    /\ pc = "returned"
    /\ i = 0
    /\ start_index = 0
    /\ end_index = 0
    /\ caller = "net"
    /\ stack = << >>
    /\ sql = get_transactions_sql_query(<< >>, network)
    /\ page_number = 1
    /\ list_df = << >>
    /\ df_size = 0
    /\ df = << >>
    /\ warned = FALSE
    /\ exception = "none"
    /\ failures = 0
    /\ served = << >>
    /\ log = << >>

get_cross_chain_info_sql_query ==
    /\ info_pc = "call"
    /\ LET out == cross_chain_info_sql_query(array_address, info_type, limit)
       IN  /\ info_sql' = out.sql
           /\ info_exception' = out.raised
    /\ info_pc' = "done"
    /\ UNCHANGED << inputs, info_type, limit, files, pc, i, start_index, end_index,
                    caller, stack, query_locals, df, warned, exception, failures,
                    log >>

InfoNext == get_cross_chain_info_sql_query

\* one call of get_cross_chain_info_sql_query with any arguments
InfoSpec == InfoInit /\ [][InfoNext]_vars

TypeOK ==
    /\ pc \in {"net", "paging", "queried", "rec", "ret", "returned", "raised"}
    /\ exception \in {"none", "Network not supported", "RecursionError", "client error"}
    /\ failures \in 0..MaxFailures
    /\ Len(stack) <= MaxDepth


(* ------------------------------ claims -------------------------------- *)
RowsOf(frame) == { frame[k] : k \in 1..Len(frame) }

Involves(row, a) == a \in {row.from_address, row.to_address}

\* C1 (as claimed): when extract_transactions_net has returned, every row the
\* service holds with an address of the list as sender or receiver is in
\* that address's file.
C1_EveryHeldRowIsFiled ==
    (pc = "returned" /\ network \in list_network) =>
        \A k \in 1..Len(array_address) : \A r \in 1..Len(chain) :
            Involves(chain[r], array_address[k]) =>
                /\ files[array_address[k]].exists
                /\ chain[r] \in RowsOf(files[array_address[k]].rows)

\* C2 (as claimed): a top-level batch goes to the range splitter if and only
\* if its table is empty or has exactly MAX_ROWS rows; otherwise it is
\* exported.
C2_CappedBatchIsSplit ==
    \A k \in 1..Len(log) :
        (log[k].level = "net" /\ log[k].op \in {"split", "export"}) =>
            (log[k].op = "split" <=> (log[k].rows = 0 \/ log[k].rows = MAX_ROWS))

\* C3: execute_query fetches the pages 1, 2, ..., N once each and in this
\* order, every page before the last fetched one is full, it fetches nothing
\* after a short page, it stops after a bounded number of pages, and it
\* returns the rows of the pages 1..N in fetch order.
C3_PaginationExact ==
    /\ \A k \in 1..Len(served) : served[k].page_number = k
    /\ \A k \in 1..(Len(served) - 1) : Len(served[k].rows) = PAGE_SIZE
    /\ Len(served) <= (MAX_ROWS \div PAGE_SIZE) + 1
    /\ pc = "queried" =>
        LET N == Len(served)
        IN  /\ N >= 1
            /\ Len(served[N].rows) < PAGE_SIZE
            /\ Len(df) = (N - 1) * PAGE_SIZE + Len(served[N].rows)
            /\ \A j \in 1..Len(df) :
                 df[j] = served[((j - 1) \div PAGE_SIZE) + 1].rows[((j - 1) % PAGE_SIZE) + 1]

\* a query of two pages, a full one and a short one that is not empty
C3_Witness ==
    /\ pc = "queried"
    /\ Len(served) = 2
    /\ Len(served[2].rows) > 0
    /\ Len(df) = PAGE_SIZE + Len(served[2].rows)

\* C4: no failure of the query client leaves the page fetcher: a failed page
\* is an empty table and the run goes on without a client exception.
C4_PageFetcherNeverRaises ==
    /\ exception # "client error"
    /\ \A k \in 1..Len(served) :
         served[k].outcome # "ok" => served[k].rows = << >>

\* the client failed for a page and the run went on to route the result
C4_Witness ==
    /\ pc = "queried"
    /\ exception = "none"
    /\ \E k \in 1..Len(served) : served[k].outcome = "malformed response"

\* C5 (as claimed): the batch ranges, the ones handed to the range splitter
\* included, are [i*M, (i+1)*M) clamped to the list length L: each lies in
\* [0, L), and a returned run has queried ceil(L/M) batches.
C5_BatchRangesClamped ==
    LET L == Len(array_address)
        batches == { k \in 1..Len(log) : log[k].level = "net" /\ log[k].op = "query" }
    IN  /\ \A k \in 1..Len(log) :
            (log[k].level = "net" /\ log[k].op = "split") =>
                /\ log[k].start = (log[k].start \div MAX_ADDRESS) * MAX_ADDRESS
                /\ log[k].end = Min(log[k].start + MAX_ADDRESS, L)
        /\ (pc = "returned" /\ network \in list_network) =>
                Cardinality(batches) = (L + MAX_ADDRESS - 1) \div MAX_ADDRESS


\* the rows of a table that involve an address
Mine(frame, a) == SelectSeq(frame, LAMBDA row : Involves(row, a))

InSlice(a) ==
    \E k \in 1..Len(array_address) :
        /\ start_index < k /\ k <= end_index
        /\ array_address[k] = a

\* a step that partitions the table df against array_address[start:end]
ExportStep == pc = "queried" /\ pc' \in {"net", "ret"}

\* C6: export_address writes, for each address of the slice that has rows in
\* the table, a file holding exactly the rows where it is sender or
\* receiver, and writes nothing for an address outside the slice.
C6_PerAddressIsolation ==
    [][ExportStep =>
          \A a \in Addresses :
              /\ (InSlice(a) /\ Mine(df, a) # << >>) =>
                     files'[a] = [exists |-> TRUE, rows |-> Mine(df, a)]
              /\ ~ InSlice(a) => files'[a] = files[a]]_vars

\* a table with rows for 0xaaa and 0xbbb was partitioned against
\* [0xaaa, 0xbbb, 0xccc]: two files written, one row in both of them
C6_Witness ==
    /\ array_address = << "0xaaa", "0xbbb", "0xccc" >>
    /\ log # << >>
    /\ log[Len(log)].op = "write"
    /\ log[Len(log)].start = 0
    /\ log[Len(log)].end = 3
    /\ files["0xaaa"].exists
    /\ files["0xbbb"].exists
    /\ RowsOf(files["0xaaa"].rows) \cap RowsOf(files["0xbbb"].rows) # {}
    /\ files["0xccc"] = InitialFiles["0xccc"]

\* C7: partitioning against an address with no row in the table leaves its
\* file as it was, absent or present, at the top level and in the recursion.
C7_NoFileOnEmpty ==
    [][ExportStep =>
          \A a \in Addresses :
              (InSlice(a) /\ Mine(df, a) = << >>) => files'[a] = files[a]]_vars

\* the range splitter partitioned a table against a slice that holds 0xccc
\* (no rows, a file from an earlier run) and 0xAAA (no rows, no file)
C7_Witness ==
    /\ \E k \in 1..Len(log) :
          /\ log[k].op = "export"
          /\ log[k].level = "between"
          /\ log[k].rows > 0
          /\ \E m, n \in (log[k].start + 1)..Min(log[k].end, Len(array_address)) :
                array_address[m] = "0xccc" /\ array_address[n] = "0xAAA"
    /\ files["0xccc"] = InitialFiles["0xccc"]
    /\ ~ files["0xAAA"].exists


\* C8 (as claimed): with batch cap 1, the range splitter that was handed the
\* range [i, i+1) of a batch with zero rows queries that single address again
\* and nothing else, and the extraction ends without an exception.
C8_SingleAddressRetried ==
    (MAX_ADDRESS = 1 /\ network \in list_network) =>
        /\ exception = "none"
        /\ \A k \in 1..Len(log) :
              (log[k].op = "query" /\ log[k].level = "between") =>
                  /\ log[k].end = log[k].start + 1
                  /\ log[k].start = i

\* every address of the list has a row in the service
EveryAddressHasRows ==
    \A k \in 1..Len(array_address) :
        \E r \in 1..Len(chain) : Involves(chain[r], Lower(array_address[k]))

\* C9 (as claimed): when every address of the list has a row in the service
\* and page fetches fail finitely often, extract_transactions_net eventually
\* returns.
C9_RecoveryReturns ==
    (EveryAddressHasRows /\ network \in list_network) => <>(pc = "returned")

\* C10 (as claimed): for a network outside list_network the extraction
\* raises "Network not supported" at once, whatever the address list, before
\* any query and without writing a file.
C10_UnsupportedAlwaysRaises ==
    (network \notin list_network /\ pc # "net") =>
        /\ pc = "raised"
        /\ exception = "Network not supported"
        /\ files = InitialFiles
        /\ served = << >>

\* C10 (amended): for a network outside list_network and an address list that
\* is not empty, the first step raises "Network not supported"; no query is
\* built or executed, the range splitter is never entered and no file is
\* written.  For an empty list the function returns without raising.
C10_UnsupportedRaisesOnFirstBatch ==
    network \notin list_network =>
        /\ pc \in {"net", "raised", "returned"}
        /\ pc = "raised" <=> (exception = "Network not supported")
        /\ pc = "raised" => array_address # << >>
        /\ pc = "returned" => array_address = << >>
        /\ i = 0
        /\ files = InitialFiles
        /\ served = << >>
        /\ stack = << >>
        /\ log = << >>

\* the extraction of a list that is not empty has raised for "fantom"
C10_Witness ==
    /\ network = "fantom"
    /\ array_address # << >>
    /\ pc = "raised"
    /\ exception = "Network not supported"


\* the rows of all the pages handed to the current execute_query
RECURSIVE RowsServed(_)
RowsServed(pages) ==
    IF pages = << >> THEN 0 ELSE Len(Head(pages).rows) + RowsServed(Tail(pages))

\* C11: when execute_query has ended its loop, the possible-truncation
\* warning is printed if the accumulated row count equals MAX_ROWS and is not
\* printed if it is less; the accumulated table is returned in both cases.
C11_CapWarning ==
    pc = "queried" =>
        /\ RowsServed(served) <= MAX_ROWS
        /\ warned <=> (RowsServed(served) = MAX_ROWS)
        /\ Len(df) = RowsServed(served)
        /\ \A k \in 1..Len(served) : RowsOf(served[k].rows) \subseteq RowsOf(df)

\* a query has returned MAX_ROWS rows, with the warning
C11_Witness ==
    /\ pc = "queried"
    /\ warned
    /\ Len(df) = MAX_ROWS
    /\ Len(served) >= 2


\* the times the file of an address was written in the run
Writes(a) == Cardinality({ k \in 1..Len(log) : log[k].op = "write" /\ log[k].address = a })

\* no address occurs twice in the list
DistinctAddresses ==
    \A j, k \in 1..Len(array_address) : j # k => array_address[j] # array_address[k]

\* C12 (as claimed): for any address list, no file is written twice in a run.
C12_WrittenOnce == \A a \in Addresses : Writes(a) <= 1

\* C12 (amended): for a list of pairwise distinct addresses, whatever the
\* batch failures and retries, no file is written twice in a run.
C12_WrittenOnceIfDistinct == DistinctAddresses => \A a \in Addresses : Writes(a) <= 1

\* a run over distinct addresses has returned after a failed batch was split,
\* with one file written by the splitter and one by a later batch
C12_Witness ==
    /\ DistinctAddresses
    /\ pc = "returned"
    /\ \E j, k, m \in 1..Len(log) :
          /\ j < k /\ k < m
          /\ log[j].op = "split"
          /\ log[k].op = "write" /\ log[k].level = "between"
          /\ log[m].op = "write" /\ log[m].level = "net"

\* C13: a call of get_cross_chain_info_sql_query with an info_type other than
\* "label" and "tag" raises "Invalid info type" and returns no query text
C13_InvalidInfoTypeRaises ==
    (info_pc = "done" /\ info_type \notin {"label", "tag"}) =>
        /\ info_exception = "Invalid info type"
        /\ info_sql = << >>

\* the indexes of the range [a, b)
Range(a, b) == a..(b - 1)

LastEvent == log[Len(log)]

\* C14: a range [s, e) handed to extract_transactions_rec is retried as
\* [s, mid) and then [mid, e), mid = (s + e) // 2: the first call is for
\* [s, mid), the second call is for [mid, e), and the two index ranges are
\* disjoint and cover [s, e)
C14_BisectionPartitions ==
    [][ /\ (pc = "rec" /\ pc' = "paging") =>
            LET s == start_index
                e == end_index
                mid == (s + e) \div 2
            IN  /\ s <= mid /\ mid <= e
                /\ start_index' = s /\ end_index' = mid
                /\ stack'[Len(stack')] = [start |-> s, end |-> e, mid |-> mid, half |-> 1]
                /\ LastEvent' = Event("query", s, mid, 0, "", "between")
        /\ (pc = "ret" /\ pc' = "paging") =>
            LET f == stack[Len(stack)]
                mid == (f.start + f.end) \div 2
            IN  /\ f.mid = mid
                /\ start_index' = mid /\ end_index' = f.end
                /\ LastEvent' = Event("query", mid, f.end, 0, "", "between")
                /\ \E k \in 1..Len(log) : log[k] = Event("query", f.start, mid, 0, "", "between")
                /\ Range(f.start, mid) \cup Range(start_index', end_index') = Range(f.start, f.end)
                /\ Range(f.start, mid) \cap Range(start_index', end_index') = {}
      ]_vars

\* the right half of a range of two or more addresses is being queried
C14_Witness ==
    /\ pc = "paging"
    /\ stack # << >>
    /\ LET f == stack[Len(stack)]
       IN  f.half = 2 /\ f.start < f.mid /\ f.mid < f.end /\ f.end <= Len(array_address)

\* C15: the range splitter only receives a range whose preceding query gave
\* an empty or capped table, and every table handed to the address
\* partitioner, at the top level or in the recursion, is non-empty and not
\* capped (its row count differs from MAX_ROWS)
C15_OnlyUncappedExported ==
    \A k \in 1..Len(log) :
        /\ log[k].op = "split" => log[k].rows \in {0, MAX_ROWS}
        /\ log[k].op = "export" => (log[k].rows > 0 /\ log[k].rows # MAX_ROWS)

\* the service holds no transaction of address a
ZeroTransactions(a) == \A row \in RowsOf(chain) : ~ Involves(row, Lower(a))

\* event k is the hand-over to the splitter of a one-address range [j, j+1)
\* whose query was empty and whose address has no transaction at all
EmptySingleSplit(k) ==
    /\ log[k].op = "split"
    /\ log[k].rows = 0
    /\ log[k].end = log[k].start + 1
    /\ log[k].start < Len(array_address)
    /\ ZeroTransactions(array_address[log[k].start + 1])

\* C16 as stated: after such a hand-over the recursion has no end (the run
\* neither returns nor stops otherwise) and no later batch is processed
C16_RecursesWithoutEnd ==
    \A k \in 1..Len(log) :
        EmptySingleSplit(k) =>
            /\ pc \notin {"returned", "raised"}
            /\ i * MAX_ADDRESS <= log[k].start

\* C16: after such a hand-over extract_transactions_net never returns: all
\* that follows is queries and splits of the empty range [j, j), nothing is
\* written, the batch loop does not advance, and the only way out is the
\* interpreter's RecursionError
C16_NeverReturns ==
    \A k \in 1..Len(log) :
        EmptySingleSplit(k) =>
            /\ pc # "returned"
            /\ pc = "raised" => exception = "RecursionError"
            /\ i * MAX_ADDRESS <= log[k].start
            /\ \A m \in (k + 1)..Len(log) :
                 /\ log[m].op \in {"query", "split"}
                 /\ log[m].level = "between"
                 /\ log[m].start = log[k].start /\ log[m].end = log[k].start

\* the recursion on an address without transactions has hit the recursion
\* limit, with a later batch still to do
C16_Witness ==
    /\ exception = "RecursionError"
    /\ \E k \in 1..Len(log) :
         /\ EmptySingleSplit(k)
         /\ k + 2 <= Len(log)
         /\ log[k].end < Len(array_address)

IsQuery(k) == log[k].op = "query"

\* the hand-over to the splitter of the range of frame f
SplitOf(f) ==
    CHOOSE k \in 1..Len(log) :
        /\ log[k].op = "split" /\ log[k].start = f.start /\ log[k].end = f.end
        /\ \A m \in (k + 1)..Len(log) :
             ~ (log[m].op = "split" /\ log[m].start = f.start /\ log[m].end = f.end)

\* queries are issued in depth-first order, left to right: a later query is
\* for a part of the range of an earlier one or lies to its right
QueriesInPreorder ==
    \A j, k \in 1..Len(log) :
        (j < k /\ IsQuery(j) /\ IsQuery(k)) =>
            \/ (log[j].start <= log[k].start /\ log[k].end <= log[j].end)
            \/ log[j].end <= log[k].start

\* an export and its file writes are for the range queried last
WritesFollowTheirQuery ==
    \A k \in 1..Len(log) :
        log[k].op \in {"export", "write"} =>
            \E j \in 1..(k - 1) :
                /\ IsQuery(j)
                /\ log[j].start = log[k].start /\ log[j].end = log[k].end
                /\ \A m \in (j + 1)..(k - 1) : log[m].op \in {"export", "write"}

\* the batches are queried in order, each one when all that came before it,
\* recovery included, is over
BatchesInOrder ==
    /\ (pc = "net" \/ caller = "net") => stack = << >>
    /\ \A k \in 1..Len(log) :
         (IsQuery(k) /\ log[k].level = "net") =>
             /\ log[k].start = MAX_ADDRESS *
                    Cardinality({ j \in 1..(k - 1) : IsQuery(j) /\ log[j].level = "net" })
             /\ \A j \in 1..(k - 1) : log[j].end <= log[k].start

\* the second call of extract_transactions_rec: when the right half is
\* queried, all that happened since the range was handed over was the left
\* half's query, retries and writes
RightAfterLeft ==
    (pc = "ret" /\ pc' = "paging") =>
        LET f == stack[Len(stack)]
            k == SplitOf(f)
        IN  /\ log[k + 1] = Event("query", f.start, f.mid, 0, "", "between")
            /\ \A m \in (k + 1)..Len(log) :
                 f.start <= log[m].start /\ log[m].end <= f.mid
            /\ log' = Append(log, Event("query", f.mid, f.end, 0, "", "between"))

\* C17: recovery is depth-first, left half before right half, and strictly
\* sequential: all queries and writes of [s, mid) come before the first query
\* for [mid, e), and batch i+1 is queried only when batch i and its recovery
\* are over
C17_DepthFirstSequential ==
    /\ [](QueriesInPreorder /\ WritesFollowTheirQuery /\ BatchesInOrder)
    /\ [][RightAfterLeft]_vars

\* a failed batch [0, e) whose left half was written, then its right half
\* queried and written, then the next batch queried
C17_Witness ==
    \E j, k, m, n \in 1..Len(log) :
        /\ j < k /\ k < m /\ m < n /\ n < Len(log)
        /\ log[j].op = "split" /\ log[j].level = "net"
        /\ log[k].op = "write" /\ log[k].end < log[j].end
        /\ IsQuery(m) /\ log[m].level = "between"
        /\ log[m].start = log[k].end /\ log[m].end = log[j].end
        /\ log[n].op = "write" /\ log[n].start = log[m].start
        /\ IsQuery(Len(log)) /\ LastEvent.level = "net" /\ LastEvent.start = log[j].end

\* C18: every query issued by extract_transactions_net or by the splitter is
\* for a range [start, end) with start < end <= len(array_address), that is
\* for a non-empty slice of the address list
C18_QueriesNonEmpty ==
    \A k \in 1..Len(log) :
        IsQuery(k) =>
            /\ log[k].start < log[k].end
            /\ log[k].end <= Len(array_address)
            /\ Slice(array_address, log[k].start, log[k].end) # << >>

====
